---- MODULE Spec2Model ----
(***************************************************************************)
(* usbd-hid-device: the HID class driver `Hid<R, B>` of src/hidclass.rs    *)
(* and the `HidReport` capability of src/lib.rs, together with the part of *)
(* the usb-device stack the driver talks to (allocator, descriptor writer, *)
(* interrupt-IN endpoint, control-IN transfer).                            *)
(*                                                                         *)
(* A byte slice `&'static [u8]` is modelled as Rust holds it: the static   *)
(* it points into and its length, [base |-> <name>, len |-> <bytes>].      *)
(* Report values (AsRef<[u8]>) are sequences of bytes.                     *)
(* A `Result<T>` is [ok, val, err]: Ok(v) or Err(e).                       *)
(***************************************************************************)
EXTENDS Integers, Sequences, FiniteSets, TLC

VARIABLES
    alloc,   \* UsbBusAllocator: next interface number, next endpoint, frozen
    hids,    \* the constructed Hid instances, in construction order
    bus,     \* the bus: configured flag, one outbound slot per IN endpoint
    xfer,    \* the control-IN transfer being dispatched (<<>> when none)
    last     \* the operation just performed, its inputs, calls and result

vars == <<alloc, hids, bus, xfer, last>>

----------------------------------------------------------------------------
(* Bounds of the model *)

MaxDrivers == 2

MaxDescLen == 65600

MaxReportLen == 66

----------------------------------------------------------------------------
(* Constants of src/hidclass.rs *)

USB_CLASS_HID == 3

USB_SUBCLASS_HID == 0

USB_PROTOCOL_HID == 0

HID_VER == <<16, 1>>

HID_COUNTRY_NONE == 0

DT_HID == 33

DT_REPORT == 34

\* max packet size passed to alloc.interrupt in Hid::new
MAX_PACKET_SIZE == 64

\* control::Request::GET_DESCRIPTOR as matched in control_in
GET_DESCRIPTOR == 6

----------------------------------------------------------------------------
(* Integer conversions *)

\* `x as u8`
AsU8(x) == x % 256

\* `x as u16`
AsU16(x) == x % 65536

\* `x >> 8`
Shr8(x) == x \div 256

\* Result<T>
Ok(v) == [ok |-> TRUE, val |-> v, err |-> "none"]

Err(e) == [ok |-> FALSE, val |-> 0, err |-> e]

----------------------------------------------------------------------------
(* Inputs *)

\* MouseReport::DESCRIPTOR, the example of src/lib.rs
MouseDescriptor ==
    << 5, 1, 9, 2, 161, 1, 9, 1, 161, 0,
       5, 9, 25, 1, 41, 3, 21, 0, 37, 1,
       149, 3, 117, 1, 129, 2, 149, 1, 117, 5,
       129, 1, 5, 1, 9, 48, 9, 49, 9, 56,
       21, 129, 37, 127, 117, 8, 149, 3, 129, 6,
       192, 192 >>

\* The statics an application may bind as R::DESCRIPTOR: the MouseReport
\* descriptor and a descriptor longer than a 16-bit length can express.
Descriptors ==
    { [base |-> "MOUSE", len |-> Len(MouseDescriptor)],
      [base |-> "LARGE", len |-> 65536 + Len(MouseDescriptor)] }

\* a static of every length up to MaxDescLen
SizedDescriptors == { [base |-> "SIZED", len |-> n] : n \in 0..MaxDescLen }

\* poll_ms: u8, not validated by Hid::new
PollValues == {10}

\* report.as_ref() of length n
Report(n) == [i \in 1..n |-> 170]

\* reports at the packet size and just above it
Reports == { Report(n) : n \in {MAX_PACKET_SIZE, MAX_PACKET_SIZE + 1} }

\* a report of every length up to MaxReportLen
SizedReports == { Report(n) : n \in 0..MaxReportLen }

Recipients == {"Device", "Interface", "Endpoint"}

RequestTypes == {"Standard", "Class"}

\* bRequest: GET_REPORT, GET_IDLE, GET_PROTOCOL, GET_DESCRIPTOR,
\* SET_REPORT, SET_IDLE, SET_PROTOCOL
RequestCodes == {1, 2, 3, GET_DESCRIPTOR, 9, 10, 11}

\* wIndex: interface numbers in use, one never allocated, and one whose low
\* byte equals an allocated interface number
Indexes == 0..MaxDrivers \cup {256}

\* wValue as (descriptor type, index): (Report,0) (Report,1) (HID,0) (0,Report)
Values == {34 * 256, 34 * 256 + 1, 33 * 256, 34}

Requests ==
    [recipient : Recipients, index : Indexes, request_type : RequestTypes,
     request : RequestCodes, value : Values]

WriterErrors == {"BufferFull", "InvalidState"}

\* The descriptor writer as the driver sees it: the result of its n-th call.
\* Either every call succeeds or the k-th is the first to fail.
OkWriter == [n \in 1..3 |-> Ok(0)]

Writers ==
    { OkWriter } \cup
    { [n \in 1..3 |-> IF n = k THEN Err(e) ELSE Ok(0)] :
        k \in 1..3, e \in WriterErrors }

----------------------------------------------------------------------------
(* usb-device: the endpoint write the driver forwards to *)

EmptySlot == [busy |-> FALSE, data |-> <<>>]

\* EndpointIn::write(data): one packet into the endpoint's outbound slot
EndpointWrite(b, ep, data) ==
    IF Len(data) > ep.max_packet_size
    THEN [ret |-> Err("BufferOverflow"), bus |-> b]
    ELSE IF ~b.configured
    THEN [ret |-> Err("InvalidState"), bus |-> b]
    ELSE IF b.slot[ep.addr].busy
    THEN [ret |-> Err("WouldBlock"), bus |-> b]
    ELSE [ret |-> Ok(Len(data)),
          bus |-> [b EXCEPT !.slot[ep.addr] = [busy |-> TRUE, data |-> data]]]

\* ControlRequest::descriptor_type_index()
descriptor_type_index(req) == <<AsU8(Shr8(req.value)), AsU8(req.value)>>

----------------------------------------------------------------------------
(* Hid<R, B> *)

\* Hid::new(alloc, poll_ms), for the report type whose DESCRIPTOR is desc
HidNew(a, desc, poll_ms) ==
    [data_if |-> a.next_if,
     write_ep |-> [addr |-> a.next_ep, max_packet_size |-> MAX_PACKET_SIZE,
                   interval |-> poll_ms],
     R |-> desc]

\* send_report that turns would-block into "nothing written"
send_report_swallowing(self, b, report) ==
    LET w == EndpointWrite(b, self.write_ep, report)
    IN  [writes |-> <<[data |-> report, ret |-> w.ret]>>,
         ret |-> IF w.ret = Err("WouldBlock") THEN Ok(0) ELSE w.ret,
         bus |-> w.bus]

\* send_report that cuts the report to the endpoint's packet size
send_report_truncating(self, b, report) ==
    LET n    == IF Len(report) > self.write_ep.max_packet_size
                THEN self.write_ep.max_packet_size ELSE Len(report)
        data == SubSeq(report, 1, n)
        w    == EndpointWrite(b, self.write_ep, data)
    IN  [writes |-> <<[data |-> data, ret |-> w.ret]>>,
         ret |-> w.ret, bus |-> w.bus]

\* Hid::send_report: the endpoint writes it makes and what it returns
send_report(self, b, report) ==
    LET w == EndpointWrite(b, self.write_ep, report)
    IN  [writes |-> <<[data |-> report, ret |-> w.ret]>>,
         ret |-> w.ret, bus |-> w.bus]

\* get_descriptor with the (type, index) pair taken in the wrong order
get_descriptor_swapped(self, req) ==
    LET idx == descriptor_type_index(req)[1]
        ty  == descriptor_type_index(req)[2]
    IN  IF ty = DT_REPORT /\ idx = 0 THEN <<self.R>> ELSE <<>>

\* Hid::get_descriptor: the accept_with_static calls it makes
get_descriptor(self, req) ==
    LET ty  == descriptor_type_index(req)[1]
        idx == descriptor_type_index(req)[2]
    IN  IF ty = DT_REPORT /\ idx = 0 THEN <<self.R>> ELSE <<>>

\* length high byte shifted after the cast: (len as u8) >> 8
HidDescriptor_cast_first(self) ==
    << HID_VER[1], HID_VER[2], HID_COUNTRY_NONE, 1, DT_REPORT,
       AsU8(self.R.len),
       Shr8(AsU8(self.R.len)) >>

\* length saturated to 16 bits instead of truncated
HidDescriptor_saturating(self) ==
    LET n == IF self.R.len > 65535 THEN 65535 ELSE self.R.len
    IN  << HID_VER[1], HID_VER[2], HID_COUNTRY_NONE, 1, DT_REPORT,
           AsU8(n),
           AsU8(Shr8(n)) >>

\* the 7 bytes written with DT_HID
HidDescriptor(self) ==
    << HID_VER[1], HID_VER[2],
       HID_COUNTRY_NONE,
       1,
       DT_REPORT,
       AsU8(self.R.len),
       AsU8(Shr8(self.R.len)) >>

\* emission with the endpoint written before the HID descriptor
get_configuration_descriptors_reordered(self, writer) ==
    LET c1 == [fn |-> "interface", number |-> self.data_if,
               class |-> USB_CLASS_HID, subclass |-> USB_SUBCLASS_HID,
               protocol |-> USB_PROTOCOL_HID]
        c2 == [fn |-> "write", descriptor_type |-> DT_HID,
               descriptor |-> HidDescriptor(self)]
        c3 == [fn |-> "endpoint", endpoint |-> self.write_ep]
    IN  IF ~writer[1].ok THEN [calls |-> <<c1>>, ret |-> writer[1]]
        ELSE IF ~writer[2].ok THEN [calls |-> <<c1, c3>>, ret |-> writer[2]]
        ELSE IF ~writer[3].ok THEN [calls |-> <<c1, c3, c2>>, ret |-> writer[3]]
        ELSE [calls |-> <<c1, c3, c2>>, ret |-> Ok(0)]

\* emission that drops the result of writer.write (no `?`)
get_configuration_descriptors_unchecked(self, writer) ==
    LET c1 == [fn |-> "interface", number |-> self.data_if,
               class |-> USB_CLASS_HID, subclass |-> USB_SUBCLASS_HID,
               protocol |-> USB_PROTOCOL_HID]
        c2 == [fn |-> "write", descriptor_type |-> DT_HID,
               descriptor |-> HidDescriptor(self)]
        c3 == [fn |-> "endpoint", endpoint |-> self.write_ep]
    IN  IF ~writer[1].ok THEN [calls |-> <<c1>>, ret |-> writer[1]]
        ELSE IF ~writer[3].ok THEN [calls |-> <<c1, c2, c3>>, ret |-> writer[3]]
        ELSE [calls |-> <<c1, c2, c3>>, ret |-> Ok(0)]

\* UsbClass::get_configuration_descriptors: writer calls made and result
get_configuration_descriptors(self, writer) ==
    LET c1 == [fn |-> "interface", number |-> self.data_if,
               class |-> USB_CLASS_HID, subclass |-> USB_SUBCLASS_HID,
               protocol |-> USB_PROTOCOL_HID]
        c2 == [fn |-> "write", descriptor_type |-> DT_HID,
               descriptor |-> HidDescriptor(self)]
        c3 == [fn |-> "endpoint", endpoint |-> self.write_ep]
    IN  IF ~writer[1].ok THEN [calls |-> <<c1>>, ret |-> writer[1]]
        ELSE IF ~writer[2].ok THEN [calls |-> <<c1, c2>>, ret |-> writer[2]]
        ELSE IF ~writer[3].ok THEN [calls |-> <<c1, c2, c3>>, ret |-> writer[3]]
        ELSE [calls |-> <<c1, c2, c3>>, ret |-> Ok(0)]

\* control_in comparing the index as a byte: req.index as u8 == data_if
control_in_index_u8(self, req) ==
    IF ~(req.recipient = "Interface" /\ AsU8(req.index) = AsU8(self.data_if))
    THEN <<>>
    ELSE IF req.request_type = "Standard" /\ req.request = GET_DESCRIPTOR
         THEN get_descriptor(self, req)
         ELSE <<>>

\* control_in matching on the request code alone
control_in_any_type(self, req) ==
    IF ~(req.recipient = "Interface" /\ req.index = AsU16(AsU8(self.data_if)))
    THEN <<>>
    ELSE IF req.request = GET_DESCRIPTOR
         THEN get_descriptor(self, req)
         ELSE <<>>

\* control_in without the interface number test
control_in_any_interface(self, req) ==
    IF ~(req.recipient = "Interface")
    THEN <<>>
    ELSE IF req.request_type = "Standard" /\ req.request = GET_DESCRIPTOR
         THEN get_descriptor(self, req)
         ELSE <<>>

\* UsbClass::control_in: the accept_with_static calls it makes
control_in(self, req) ==
    IF ~(req.recipient = "Interface" /\ req.index = AsU16(AsU8(self.data_if)))
    THEN <<>>
    ELSE IF req.request_type = "Standard" /\ req.request = GET_DESCRIPTOR
         THEN get_descriptor(self, req)
         ELSE <<>>

----------------------------------------------------------------------------
(* Actions *)

NoOp == [op |-> "none"]

\* UsbBusAllocator::new: interfaces from 0, IN endpoints from 1
Alloc0 == [next_if |-> 0, next_ep |-> 1, frozen |-> FALSE]

Init ==
    /\ alloc = Alloc0
    /\ hids = <<>>
    /\ bus = [configured |-> FALSE, slot |-> <<>>]
    /\ xfer = <<>>
    /\ last = NoOp

\* let hid = Hid::<R, _>::new(&usb_alloc, poll_ms)
New(desc, poll_ms) ==
    /\ ~alloc.frozen
    /\ Len(hids) < MaxDrivers
    /\ hids' = Append(hids, HidNew(alloc, desc, poll_ms))
    /\ alloc' = [alloc EXCEPT !.next_if = @ + 1, !.next_ep = @ + 1]
    /\ bus' = [bus EXCEPT !.slot = Append(@, EmptySlot)]
    /\ last' = [op |-> "new", d |-> Len(hids) + 1]
    /\ UNCHANGED xfer

\* the UsbDevice is built: the allocator is frozen, the bus enabled
Build ==
    /\ ~alloc.frozen
    /\ Len(hids) > 0
    /\ alloc' = [alloc EXCEPT !.frozen = TRUE]
    /\ last' = [op |-> "build"]
    /\ UNCHANGED <<hids, bus, xfer>>

Idle == alloc.frozen /\ xfer = <<>>

\* the host configures the device
Configure ==
    /\ Idle
    /\ ~bus.configured
    /\ bus' = [bus EXCEPT !.configured = TRUE]
    /\ last' = [op |-> "configure"]
    /\ UNCHANGED <<alloc, hids, xfer>>

\* bus reset: the device is unconfigured and pending packets are dropped
Reset ==
    /\ Idle
    /\ bus.configured
    /\ bus' = [configured |-> FALSE,
               slot |-> [a \in DOMAIN bus.slot |-> EmptySlot]]
    /\ last' = [op |-> "reset"]
    /\ UNCHANGED <<alloc, hids, xfer>>

\* the host polls IN endpoint a and takes the packet in flight
HostPoll(a) ==
    /\ Idle
    /\ bus.slot[a].busy
    /\ bus' = [bus EXCEPT !.slot[a] = EmptySlot]
    /\ last' = [op |-> "host_poll", addr |-> a]
    /\ UNCHANGED <<alloc, hids, xfer>>

\* hid.send_report(&report)
SendReport(d, report) ==
    /\ Idle
    /\ LET out == send_report(hids[d], bus, report)
       IN  /\ bus' = out.bus
           /\ last' = [op |-> "send_report", d |-> d, report |-> report,
                       writes |-> out.writes, ret |-> out.ret,
                       before |-> bus]
    /\ UNCHANGED <<alloc, hids, xfer>>

\* the stack asks class d for its part of the configuration descriptor
GetConfigurationDescriptors(d, writer) ==
    /\ Idle
    /\ LET out == get_configuration_descriptors(hids[d], writer)
       IN  last' = [op |-> "get_configuration_descriptors", d |-> d,
                    writer |-> writer, calls |-> out.calls, ret |-> out.ret]
    /\ UNCHANGED <<alloc, hids, bus, xfer>>

\* a control-IN request arrives: the stack starts walking its class list
ControlRequest(req) ==
    /\ Idle
    /\ xfer' = <<[req |-> req, next |-> 1, accepted |-> <<>>]>>
    /\ last' = [op |-> "control_request"]
    /\ UNCHANGED <<alloc, hids, bus>>

\* cls.control_in(ControlIn::new(.., &req)) for the next class of the list
ControlIn(d) ==
    /\ alloc.frozen
    /\ xfer # <<>>
    /\ d = xfer[1].next
    /\ LET acc == control_in(hids[d], xfer[1].req)
       IN  /\ xfer' = <<[xfer[1] EXCEPT
                           !.next = d + 1,
                           !.accepted = @ \o [i \in 1..Len(acc) |->
                                                [by |-> d, data |-> acc[i]]]]>>
           /\ last' = [op |-> "control_in", d |-> d, req |-> xfer[1].req,
                       accepts |-> acc]
    /\ UNCHANGED <<alloc, hids, bus>>

\* every class has seen the request: the stack is done with it
ControlDone ==
    /\ alloc.frozen
    /\ xfer # <<>>
    /\ xfer[1].next > Len(hids)
    /\ xfer' = <<>>
    /\ last' = [op |-> "control_done"]
    /\ UNCHANGED <<alloc, hids, bus>>

Next ==
    \/ \E desc \in Descriptors, poll_ms \in PollValues : New(desc, poll_ms)
    \/ Build
    \/ Configure
    \/ Reset
    \/ \E a \in DOMAIN bus.slot : HostPoll(a)
    \/ \E d \in DOMAIN hids, report \in Reports : SendReport(d, report)
    \/ \E d \in DOMAIN hids, writer \in Writers :
          GetConfigurationDescriptors(d, writer)
    \/ \E req \in Requests : ControlRequest(req)
    \/ \E d \in DOMAIN hids : ControlIn(d)
    \/ ControlDone

Spec == Init /\ [][Next]_vars

----------------------------------------------------------------------------
(* A device with one Hid bound to desc, built and not yet configured *)

InitOne(desc) ==
    /\ hids = <<HidNew(Alloc0, desc, 10)>>
    /\ alloc = [next_if |-> 1, next_ep |-> 2, frozen |-> TRUE]
    /\ bus = [configured |-> FALSE, slot |-> <<EmptySlot>>]
    /\ xfer = <<>>
    /\ last = [op |-> "build"]

(* Descriptor emission for a descriptor of every length 0..MaxDescLen *)

InitLen == \E desc \in SizedDescriptors : InitOne(desc)

NextLen == \E d \in DOMAIN hids : GetConfigurationDescriptors(d, OkWriter)

SpecLen == InitLen /\ [][NextLen]_vars

(* Report send for a report of every length 0..MaxReportLen *)

InitSend == \E desc \in Descriptors : InitOne(desc)

NextSend ==
    \/ Configure
    \/ Reset
    \/ \E a \in DOMAIN bus.slot : HostPoll(a)
    \/ \E d \in DOMAIN hids, report \in SizedReports : SendReport(d, report)

SpecSend == InitSend /\ [][NextSend]_vars

----------------------------------------------------------------------------
(* Properties *)

U16Max == 2^16 - 1

\* the control request the driver answers, addressed to interface n
ReportRequest(n) ==
    [recipient |-> "Interface", index |-> n, request_type |-> "Standard",
     request |-> 6, value |-> 34 * 256]

Addressed(req, self) == req.recipient = "Interface" /\ req.index = self.data_if

EmittedBy(d) == last.op = "get_configuration_descriptors" /\ last.d = d

\* C1: a control-IN request with recipient Interface, index = the driver's
\* interface number, type Standard, code GET_DESCRIPTOR, descriptor type
\* Report (0x22) and descriptor index 0 makes control_in call
\* accept_with_static exactly once, with exactly R::DESCRIPTOR, in every
\* reachable state.
C1_ClaimCorrectness ==
    last.op = "control_in" =>
        (last.req = ReportRequest(hids[last.d].data_if)
            => last.accepts = <<hids[last.d].R>>)

C1_Witness ==
    /\ last.op = "control_in"
    /\ last.d = 2
    /\ last.req = ReportRequest(1)
    /\ last.accepts = <<[base |-> "MOUSE", len |-> 52]>>
    /\ bus.slot[1].busy

\* C2: a request whose recipient is not Interface, or whose index differs
\* from the driver's interface number, is never accepted, whatever its
\* request type, request code and descriptor type/index.
C2_Isolation ==
    last.op = "control_in" =>
        (~Addressed(last.req, hids[last.d]) => last.accepts = <<>>)

C2_Witness ==
    /\ last.op = "control_in"
    /\ last.d = 1
    /\ last.req = ReportRequest(256)
    /\ last.accepts = <<>>

\* C3: a request addressed to the driver's interface is left unclaimed unless
\* it is exactly Standard / GET_DESCRIPTOR / descriptor type Report /
\* descriptor index 0.
C3_Selectivity ==
    last.op = "control_in" =>
        ((Addressed(last.req, hids[last.d])
          /\ last.req # ReportRequest(hids[last.d].data_if))
            => last.accepts = <<>>)

C3_Witness ==
    /\ last.op = "control_in"
    /\ Addressed(last.req, hids[last.d])
    /\ last.req.request_type = "Class"
    /\ last.req.request = 6
    /\ last.req.value = 34 * 256
    /\ last.accepts = <<>>

\* C4: a control request handed to every driver instance is accepted at most
\* once in total: by at most one instance, and by that instance at most once.
C4_ResolvedAtMostOnce ==
    /\ last.op = "control_in" => Len(last.accepts) <= 1
    /\ xfer # <<>> => Len(xfer[1].accepted) <= 1

C4_Witness ==
    /\ xfer # <<>>
    /\ Len(hids) = MaxDrivers
    /\ xfer[1].next > Len(hids)
    /\ Len(xfer[1].accepted) = 1
    /\ hids[1].R = hids[2].R

\* C5: for every descriptor length L in 0..65535 the last two bytes of the
\* HID class descriptor record, read little-endian, equal L; a 52-byte
\* descriptor yields 10 01 00 01 22 34 00.
C5_LengthEncoding ==
    \A d \in DOMAIN hids :
        (EmittedBy(d) /\ Len(last.calls) >= 2 /\ hids[d].R.len <= U16Max) =>
            LET rec == last.calls[2].descriptor
            IN  /\ Len(rec) = 7
                /\ rec[6] \in 0..255
                /\ rec[7] \in 0..255
                /\ rec[6] + 256 * rec[7] = hids[d].R.len
                /\ hids[d].R.len = 52 => rec = <<16, 1, 0, 1, 34, 52, 0>>

C5_Witness ==
    /\ EmittedBy(1)
    /\ hids[1].R.len = U16Max
    /\ last.calls[2].descriptor = <<16, 1, 0, 1, 34, 255, 255>>

\* C6: a successful emission makes exactly three writer calls, in this order:
\* interface(number, 0x03, 0x00, 0x00); write(0x21, [0x10, 0x01, 0x00, 0x01,
\* 0x22, len_lo, len_hi]); endpoint(the driver's interrupt-IN endpoint).
C6_EmissionOrder ==
    \A d \in DOMAIN hids :
        (EmittedBy(d) /\ last.ret.ok) =>
            last.calls =
                << [fn |-> "interface", number |-> hids[d].data_if,
                    class |-> 3, subclass |-> 0, protocol |-> 0],
                   [fn |-> "write", descriptor_type |-> 33,
                    descriptor |-> <<16, 1, 0, 1, 34,
                                     hids[d].R.len % 256,
                                     (hids[d].R.len \div 256) % 256>>],
                   [fn |-> "endpoint", endpoint |-> hids[d].write_ep] >>

C6_Witness ==
    /\ EmittedBy(2)
    /\ last.ret.ok
    /\ Len(last.calls) = 3
    /\ last.calls[1].number = 1
    /\ last.calls[3].endpoint.addr = 2

\* the first call the writer fails, 0 if none
FirstFailure(writer) ==
    IF \A n \in 1..3 : writer[n].ok THEN 0
    ELSE CHOOSE k \in 1..3 : ~writer[k].ok /\ \A j \in 1..(k - 1) : writer[j].ok

C7_Propagates ==
    (last.op = "get_configuration_descriptors" /\ FirstFailure(last.writer) # 0) =>
        /\ last.ret = last.writer[FirstFailure(last.writer)]
        /\ Len(last.calls) = FirstFailure(last.writer)

C7_NoMutation ==
    last'.op = "get_configuration_descriptors" =>
        /\ hids' = hids
        /\ alloc' = alloc
        /\ bus' = bus
        /\ \A w \in Writers :
              get_configuration_descriptors(hids'[last'.d], w)
                = get_configuration_descriptors(hids[last'.d], w)

\* C7: when the writer fails at one of the three steps, emission returns that
\* error unmodified, makes no writer call after the failing one, and leaves
\* the driver (interface number, endpoint) and the stack's state as they were.
C7_FailureAtomic == []C7_Propagates /\ [][C7_NoMutation]_vars

C7_Witness ==
    /\ EmittedBy(2)
    /\ last.ret = Err("InvalidState")
    /\ Len(last.calls) = 2

\* C10: for a descriptor longer than 65535 bytes emission still succeeds; the
\* two length bytes are L mod 256 and (L div 256) mod 256, so the encoded
\* length is L mod 65536 and differs from L, while GET_DESCRIPTOR(Report) is
\* still answered with the whole descriptor.
C10_LengthWraps ==
    \A d \in DOMAIN hids :
        hids[d].R.len > U16Max =>
            /\ (EmittedBy(d) /\ last.writer = OkWriter) =>
                  /\ last.ret.ok
                  /\ last.calls[2].descriptor[6] = hids[d].R.len % 256
                  /\ last.calls[2].descriptor[7] = (hids[d].R.len \div 256) % 256
                  /\ last.calls[2].descriptor[6] + 256 * last.calls[2].descriptor[7]
                        = hids[d].R.len % 65536
                  /\ last.calls[2].descriptor[6] + 256 * last.calls[2].descriptor[7]
                        # hids[d].R.len
            /\ (last.op = "control_in" /\ last.d = d
                /\ last.req = ReportRequest(hids[d].data_if)) =>
                  /\ last.accepts = <<hids[d].R>>
                  /\ last.accepts[1].len = hids[d].R.len

C10_Witness ==
    /\ EmittedBy(1)
    /\ hids[1].R.len = 65588
    /\ last.ret.ok
    /\ last.calls[2].descriptor = <<16, 1, 0, 1, 34, 52, 0>>

SentOn(ep) == last.op = "send_report" /\ hids[last.d].write_ep.addr = ep

InFlight(report) == [busy |-> TRUE, data |-> report]

\* C8 as stated: one write attempt per call; an occupied slot always gives
\* would-block and leaves the packet in flight alone; a call finding the
\* slot of a configured device free succeeds with the report's length.
C8_AsStated ==
    \A ep \in DOMAIN bus.slot :
        SentOn(ep) =>
            /\ Len(last.writes) = 1
            /\ last.writes[1].data = last.report
            /\ last.ret = last.writes[1].ret
            /\ last.before.slot[ep].busy =>
                  (last.ret = Err("WouldBlock") /\ bus = last.before)
            /\ (last.before.configured /\ ~last.before.slot[ep].busy) =>
                  (last.ret = Ok(Len(last.report))
                   /\ bus.slot[ep] = InFlight(last.report))

\* C8: each send_report makes exactly one endpoint write, of the whole
\* report, and returns that write's result; a failed call queues nothing;
\* on a configured device and for a report of at most 64 bytes, an occupied
\* slot gives would-block with the packet in flight unchanged, and a free
\* slot takes the report and gives Ok(its length).
C8_OneAttempt ==
    \A ep \in DOMAIN bus.slot :
        SentOn(ep) =>
            LET ready == last.before.configured /\ Len(last.report) <= 64
            IN  /\ Len(last.writes) = 1
                /\ last.writes[1].data = last.report
                /\ last.ret = last.writes[1].ret
                /\ ~last.ret.ok => bus = last.before
                /\ (ready /\ last.before.slot[ep].busy) =>
                      (last.ret = Err("WouldBlock") /\ bus = last.before)
                /\ (ready /\ ~last.before.slot[ep].busy) =>
                      (last.ret = Ok(Len(last.report))
                       /\ bus = [last.before EXCEPT
                                    !.slot[ep] = InFlight(last.report)])

C8_Witness ==
    /\ SentOn(1)
    /\ last.before.slot[1] = InFlight(Report(64))
    /\ last.report = Report(8)
    /\ last.ret = Err("WouldBlock")
    /\ bus.slot[1] = InFlight(Report(64))

\* C9: a report longer than 64 bytes fails with the size error and queues
\* nothing, whether the device is unconfigured, the slot free or occupied;
\* a report of 0..64 bytes never fails with the size error.
C9_SizeGuard ==
    last.op = "send_report" =>
        /\ Len(last.report) > 64 =>
              (last.ret = Err("BufferOverflow") /\ bus = last.before)
        /\ Len(last.report) <= 64 => last.ret # Err("BufferOverflow")

C9_Witness ==
    /\ SentOn(1)
    /\ Len(last.report) = 65
    /\ last.before.slot[1] = InFlight(Report(64))
    /\ last.ret = Err("BufferOverflow")
    /\ bus.slot[1] = InFlight(Report(64))

====
